---- MODULE Spec2Model ----
(***************************************************************************)
(* Model of queued_search's process_search_queue management command:       *)
(* one drain cycle (handle_noargs) reads every queued message, aggregates  *)
(* them into the 'update' and 'delete' sets (process_message) and then     *)
(* flushes the sets to the search index (handle_updates, handle_deletes).  *)
(*                                                                         *)
(* A Python string is a sequence of tokens; ":" and "." are tokens of      *)
(* their own, so that str.split and str.join are computed, not assumed.    *)
(***************************************************************************)
EXTENDS Naturals, Sequences, FiniteSets, TLC

\* Longest queue backlog explored.
MaxQueue == 3

\* Python's None; a one-token string that no message can contain.
None == <<"<None>">>

----------------------------------------------------------------------------
(* Strings *)

\* sep in s
Contains(s, sep) == \E i \in 1..Len(s) : s[i] = sep

RECURSIVE SplitFrom(_, _, _, _, _)
SplitFrom(s, sep, i, cur, acc) ==
    IF i > Len(s) THEN Append(acc, cur)
    ELSE IF s[i] = sep THEN SplitFrom(s, sep, i + 1, <<>>, Append(acc, cur))
    ELSE SplitFrom(s, sep, i + 1, Append(cur, s[i]), acc)

\* s.split(sep): every occurrence of sep separates two parts.
Split(s, sep) == SplitFrom(s, sep, 1, <<>>, <<>>)

RECURSIVE Join(_, _)
\* sep.join(parts)
Join(parts, sep) ==
    IF parts = <<>> THEN <<>>
    ELSE IF Len(parts) = 1 THEN parts[1]
    ELSE parts[1] \o <<sep>> \o Join(Tail(parts), sep)

\* bits[:-1]
AllButLast(bits) == SubSeq(bits, 1, Len(bits) - 1)

----------------------------------------------------------------------------
(* The messages a producer can have queued *)

Identifiers ==
    { <<"blog", ".", "post", ".", "1">>,
      <<"blog", ".", "post", ".", "2">>,
      <<"note", ".", "1">>,
      <<"post">> }

Messages ==
    { <<a, ":">> \o id : a \in {"update", "delete"}, id \in Identifiers }
    \cup { <<"upsert", ":", "blog", ".", "post", ".", "1">>,
           <<"update", "blog", ".", "post", ".", "1">>,
           <<"update", ":", "note", ":", "1">> }

\* The model paths the identifiers can name.
ModelPaths == { <<"blog", ".", "post">>, <<"note">> }

\* Every queue backlog of at most MaxQueue messages.
Backlogs == UNION { [1..n -> Messages] : n \in 0..MaxQueue }

\* The orders in which a Python set or dict with the members S can be iterated.
IterationOrders(S) ==
    { o \in [1..Cardinality(S) -> S] : \A i, j \in DOMAIN o : o[i] = o[j] => i = j }

----------------------------------------------------------------------------
(* Command.process_message *)

\* Variant: an update that leaves the delete set alone.
add_update_keep_delete(acts, obj_identifier) ==
    [update |-> acts.update \cup {obj_identifier}, delete |-> acts.delete]

\* Variant: an update of an identifier already pending for update removes it.
add_update_toggle(acts, obj_identifier) ==
    [update |-> IF obj_identifier \in acts.update
                THEN acts.update \ {obj_identifier}
                ELSE acts.update \cup {obj_identifier},
     delete |-> acts.delete \ {obj_identifier}]

\* The 'update' branch: the identifier leaves the delete set if it is there
\* and joins the update set.
add_update(acts, obj_identifier) ==
    [update |-> acts.update \cup {obj_identifier},
     delete |-> IF obj_identifier \in acts.delete
                THEN acts.delete \ {obj_identifier}
                ELSE acts.delete]

\* Variant: a delete of an identifier pending for update only cancels the update.
add_delete_cancel_only(acts, obj_identifier) ==
    IF obj_identifier \in acts.update
    THEN [update |-> acts.update \ {obj_identifier}, delete |-> acts.delete]
    ELSE [update |-> acts.update, delete |-> acts.delete \cup {obj_identifier}]

\* Variant: a delete that leaves the update set alone.
add_delete_keep_update(acts, obj_identifier) ==
    [update |-> acts.update, delete |-> acts.delete \cup {obj_identifier}]

\* The 'delete' branch: the identifier leaves the update set if it is there
\* and joins the delete set.
add_delete(acts, obj_identifier) ==
    [update |-> IF obj_identifier \in acts.update
                THEN acts.update \ {obj_identifier}
                ELSE acts.update,
     delete |-> acts.delete \cup {obj_identifier}]

\* Variant: a message without ':' clears the sets, an unknown action counts as update.
process_message_drop_changes(acts, message) ==
    IF ~Contains(message, ":") THEN
         [actions |-> [update |-> {}, delete |-> {}], raised |-> FALSE]
    ELSE LET parts == Split(message, ":") IN
         IF Len(parts) # 2 THEN [actions |-> acts, raised |-> TRUE]
         ELSE LET action == parts[1]
                  obj_identifier == parts[2]
              IN IF action = <<"update">> THEN
                      [actions |-> add_update(acts, obj_identifier), raised |-> FALSE]
                 ELSE IF action = <<"delete">> THEN
                      [actions |-> add_delete(acts, obj_identifier), raised |-> FALSE]
                 ELSE [actions |-> add_update(acts, obj_identifier), raised |-> FALSE]

\* The pending sets after the message, and whether the call raised: the
\* two-target unpacking of message.split(':') raises ValueError unless the
\* split gives exactly two parts.
process_message(acts, message) ==
    IF ~Contains(message, ":") THEN [actions |-> acts, raised |-> FALSE]
    ELSE LET parts == Split(message, ":") IN
         IF Len(parts) # 2 THEN [actions |-> acts, raised |-> TRUE]
         ELSE LET action == parts[1]
                  obj_identifier == parts[2]
              IN IF action = <<"update">> THEN
                      [actions |-> add_update(acts, obj_identifier), raised |-> FALSE]
                 ELSE IF action = <<"delete">> THEN
                      [actions |-> add_delete(acts, obj_identifier), raised |-> FALSE]
                 ELSE [actions |-> acts, raised |-> FALSE]

----------------------------------------------------------------------------
(* Command.split_obj_identifier, get_model_class, get_index, get_instance *)

\* Variant: the first segment is the type, the rest the key.
split_obj_identifier_first_dot(obj_identifier) ==
    LET bits == Split(obj_identifier, ".") IN
    IF Len(bits) < 2 THEN <<None, None>>
    ELSE <<bits[1], Join(Tail(bits), ".")>>

split_obj_identifier(obj_identifier) ==
    LET bits == Split(obj_identifier, ".") IN
    IF Len(bits) < 2 THEN <<None, None>>
    ELSE <<Join(AllButLast(bits), "."), bits[Len(bits)]>>

\* django's get_model(app_name, classname): the loaded model classes are keyed
\* by app label and class name; a model class is represented by its path.
get_model(loaded, app_name, classname) ==
    IF \E p \in loaded : LET b == Split(p, ".")
                         IN Join(AllButLast(b), ".") = app_name /\ b[Len(b)] = classname
    THEN (IF app_name = <<>> THEN classname ELSE app_name \o <<".">> \o classname)
    ELSE None

get_model_class(loaded, object_path) ==
    LET bits == Split(object_path, ".")
        app_name == Join(AllButLast(bits), ".")
        classname == bits[Len(bits)]
    IN get_model(loaded, app_name, classname)

\* site.get_index raises NotRegistered for a class that is not registered
\* (None included); the index is represented by the path of its model.
\* Variant: every loadable model class has an index.
get_index_any(registered, model_class) == model_class

get_index(registered, model_class) ==
    IF model_class \in registered THEN model_class ELSE None

\* What model_class.objects.get(pk=pk) can answer.
FetchOutcomes == {"found", "ObjectDoesNotExist", "MultipleObjectsReturned"}

get_instance(model_class, pk, outcome) ==
    IF outcome = "found" THEN <<model_class, pk>> ELSE None

----------------------------------------------------------------------------
(* State *)

VARIABLES
    queue,          \* the messages still in the queue, oldest first
    actions,        \* self.actions: [update |-> set, delete |-> set]
    pc,             \* where handle_noargs is
    updates,        \* handle_updates' dict: object_path -> list of pks
    deletes,        \* handle_deletes' dict: object_path -> list of identifiers
    todo,           \* the keys the running 'for ... in dict.items()' has not visited
    previous_path,  \* local of the running handler
    current_index,  \* local of the running handler
    models,         \* the model paths django can load
    registry,       \* the model classes with a registered SearchIndex
    calls,          \* the calls made on the index site, the repository and the backend
    consumed,       \* the messages read so far, in the order read
    queue0          \* the backlog at the start of the cycle

vars == <<queue, actions, pc, updates, deletes, todo, previous_path, current_index,
          models, registry, calls, consumed, queue0>>

EmptyDict == [k \in {} |-> <<>>]

\* One call on a collaborator: what was called, for which path, with which
\* argument, and what it answered.
Call(op, path, arg, result) == [op |-> op, path |-> path, arg |-> arg, result |-> result]

\* Command.__init__ followed by the start of handle_noargs.
Init ==
    /\ queue \in Backlogs
    /\ queue0 = queue
    /\ actions = [update |-> {}, delete |-> {}]
    /\ pc = "draining"
    /\ updates = EmptyDict
    /\ deletes = EmptyDict
    /\ todo = {}
    /\ previous_path = None
    /\ current_index = None
    /\ models \in SUBSET ModelPaths
    /\ registry \in SUBSET models
    /\ calls = <<>>
    /\ consumed = <<>>

----------------------------------------------------------------------------
(* Command.handle_noargs: the draining loop *)

\* Variant: the newest message is read first.
ReadMessage_lifo ==
    /\ pc = "draining"
    /\ queue # <<>>
    /\ LET message == queue[Len(queue)]
           r == process_message(actions, message)
       IN /\ queue' = SubSeq(queue, 1, Len(queue) - 1)
          /\ consumed' = Append(consumed, message)
          /\ actions' = r.actions
          /\ pc' = IF r.raised THEN "raised" ELSE "draining"
    /\ UNCHANGED <<updates, deletes, todo, previous_path, current_index,
                   models, registry, calls, queue0>>

\* Variant: the queue is also read between two groups of the delete pass.
ReadMessage_while_flushing ==
    /\ pc \in {"draining", "deletes_loop"}
    /\ queue # <<>>
    /\ LET message == Head(queue)
           r == process_message(actions, message)
       IN /\ queue' = Tail(queue)
          /\ consumed' = Append(consumed, message)
          /\ actions' = r.actions
          /\ pc' = IF r.raised THEN "raised" ELSE pc
    /\ UNCHANGED <<updates, deletes, todo, previous_path, current_index,
                   models, registry, calls, queue0>>

\* message = self.queue.read(); self.process_message(message)
ReadMessage ==
    /\ pc = "draining"
    /\ queue # <<>>
    /\ LET message == Head(queue)
           r == process_message(actions, message)
       IN /\ queue' = Tail(queue)
          /\ consumed' = Append(consumed, message)
          /\ actions' = r.actions
          /\ pc' = IF r.raised THEN "raised" ELSE "draining"
    /\ UNCHANGED <<updates, deletes, todo, previous_path, current_index,
                   models, registry, calls, queue0>>

\* Variant: the delete pass is entered first.
ReadEmpty_deletes_first ==
    /\ pc = "draining"
    /\ queue = <<>>
    /\ pc' = "handle_deletes"
    /\ UNCHANGED <<queue, actions, updates, deletes, todo, previous_path, current_index,
                   models, registry, calls, consumed, queue0>>

\* Variant: the loop ends once as many messages were read as the queue held
\* at the start.
ReadEmpty_bounded ==
    /\ pc = "draining"
    /\ Len(consumed) >= Len(queue0)
    /\ pc' = "handle_updates"
    /\ UNCHANGED <<queue, actions, updates, deletes, todo, previous_path, current_index,
                   models, registry, calls, consumed, queue0>>

\* self.queue.read() raises QueueException: the queue is consumed.
ReadEmpty ==
    /\ pc = "draining"
    /\ queue = <<>>
    /\ pc' = "handle_updates"
    /\ UNCHANGED <<queue, actions, updates, deletes, todo, previous_path, current_index,
                   models, registry, calls, consumed, queue0>>

----------------------------------------------------------------------------
(* Command.handle_updates *)

RECURSIVE group_updates(_, _, _)
\* The first loop of handle_updates, over self.actions['update'] in the
\* order the set is iterated: the pks of every path, in that order.
group_updates(order, i, grouped) ==
    IF i > Len(order) THEN grouped
    ELSE LET obj_identifier == order[i]
             object_path == split_obj_identifier(obj_identifier)[1]
             pk == split_obj_identifier(obj_identifier)[2]
         IN IF object_path = None \/ pk = None
            THEN group_updates(order, i + 1, grouped)
            ELSE LET g == IF object_path \notin DOMAIN grouped
                          THEN grouped @@ (object_path :> <<>>)
                          ELSE grouped
                 IN group_updates(order, i + 1,
                                  [g EXCEPT ![object_path] = Append(@, pk)])

\* handle_updates up to its second loop; an empty dict ends the handler.
HandleUpdatesGroup ==
    /\ pc = "handle_updates"
    /\ \E order \in IterationOrders(actions.update) :
          /\ updates' = group_updates(order, 1, EmptyDict)
          /\ todo' = DOMAIN updates'
          /\ pc' = IF todo' = {} THEN "handle_deletes" ELSE "updates_loop"
    /\ previous_path' = None
    /\ current_index' = None
    /\ UNCHANGED <<queue, actions, deletes, models, registry, calls, consumed, queue0>>

\* [self.get_instance(model_class, pk) for pk in pks] as the calls made.
FetchCalls(object_path, pks, instances) ==
    [i \in 1..Len(pks) |-> Call("get", object_path, pks[i], instances[i])]

\* Variant: unresolved instances stay in the list.
NotNone_keep(instances) == instances

RECURSIVE NotNone(_)
\* [instance for instance in instances if instance is not None]
NotNone(instances) ==
    IF instances = <<>> THEN <<>>
    ELSE IF Head(instances) = None THEN NotNone(Tail(instances))
    ELSE <<Head(instances)>> \o NotNone(Tail(instances))

\* Variant: one backend call per instance.
backend_update_each(index, instances) ==
    [i \in 1..Len(instances) |-> Call("update", index, <<instances[i]>>, None)]

\* Variant: no backend call for an empty list.
backend_update_skip_empty(index, instances) ==
    IF instances = <<>> THEN <<>> ELSE <<Call("update", index, instances, None)>>

\* current_index.backend.update(current_index, instances)
backend_update(index, instances) == <<Call("update", index, instances, None)>>

\* One iteration of 'for object_path, pks in updates.items()'; the handler
\* returns after the last one.
HandleUpdatesItem ==
    /\ pc = "updates_loop"
    /\ \E object_path \in todo :
       \E outcomes \in [1..Len(updates[object_path]) -> FetchOutcomes] :
          LET pks == updates[object_path]
              model_class == get_model_class(models, object_path)
              resolve == object_path # previous_path
              index == IF resolve THEN get_index(registry, model_class) ELSE current_index
              lookup == IF resolve THEN <<Call("get_index", object_path, model_class, index)>>
                        ELSE <<>>
              instances == [i \in 1..Len(pks) |-> get_instance(model_class, pks[i], outcomes[i])]
          IN /\ previous_path' = object_path
             /\ current_index' = index
             /\ calls' = IF index = None THEN calls \o lookup
                         ELSE calls \o lookup \o FetchCalls(object_path, pks, instances)
                              \o backend_update(index, NotNone(instances))
             /\ todo' = todo \ {object_path}
             /\ pc' = IF todo' = {} THEN "handle_deletes" ELSE "updates_loop"
    /\ UNCHANGED <<queue, actions, updates, deletes, models, registry, consumed, queue0>>

----------------------------------------------------------------------------
(* Command.handle_deletes *)

RECURSIVE group_deletes(_, _, _)
\* The first loop of handle_deletes: the identifiers of every path.
group_deletes(order, i, grouped) ==
    IF i > Len(order) THEN grouped
    ELSE LET obj_identifier == order[i]
             object_path == split_obj_identifier(obj_identifier)[1]
             pk == split_obj_identifier(obj_identifier)[2]
         IN IF object_path = None \/ pk = None
            THEN group_deletes(order, i + 1, grouped)
            ELSE LET g == IF object_path \notin DOMAIN grouped
                          THEN grouped @@ (object_path :> <<>>)
                          ELSE grouped
                 IN group_deletes(order, i + 1,
                                  [g EXCEPT ![object_path] = Append(@, obj_identifier)])

\* Variant: the identifiers grouped are taken out of the delete set.
HandleDeletesGroup_consume ==
    /\ pc = "handle_deletes"
    /\ \E order \in IterationOrders(actions.delete) :
          /\ deletes' = group_deletes(order, 1, EmptyDict)
          /\ todo' = DOMAIN deletes'
          /\ pc' = IF todo' = {} THEN "done" ELSE "deletes_loop"
    /\ actions' = [update |-> actions.update, delete |-> {}]
    /\ previous_path' = None
    /\ current_index' = None
    /\ UNCHANGED <<queue, updates, models, registry, calls, consumed, queue0>>

\* handle_deletes up to its second loop; an empty dict ends the handler and
\* handle_noargs with it.
HandleDeletesGroup ==
    /\ pc = "handle_deletes"
    /\ \E order \in IterationOrders(actions.delete) :
          /\ deletes' = group_deletes(order, 1, EmptyDict)
          /\ todo' = DOMAIN deletes'
          /\ pc' = IF todo' = {} THEN "done" ELSE "deletes_loop"
    /\ previous_path' = None
    /\ current_index' = None
    /\ UNCHANGED <<queue, actions, updates, models, registry, calls, consumed, queue0>>

\* Variant: the removal is keyed by the primary key.
remove_objects_by_pk(index, obj_identifiers) ==
    [i \in 1..Len(obj_identifiers) |->
        Call("remove_object", index, split_obj_identifier(obj_identifiers[i])[2], None)]

\* for obj_identifier in obj_identifiers: current_index.remove_object(obj_identifier)
remove_objects(index, obj_identifiers) ==
    [i \in 1..Len(obj_identifiers) |->
        Call("remove_object", index, obj_identifiers[i], None)]

\* One iteration of 'for object_path, obj_identifiers in deletes.items()'.
HandleDeletesItem ==
    /\ pc = "deletes_loop"
    /\ \E object_path \in todo :
          LET obj_identifiers == deletes[object_path]
              model_class == get_model_class(models, object_path)
              resolve == object_path # previous_path
              index == IF resolve THEN get_index(registry, model_class) ELSE current_index
              lookup == IF resolve THEN <<Call("get_index", object_path, model_class, index)>>
                        ELSE <<>>
          IN /\ previous_path' = object_path
             /\ current_index' = index
             /\ calls' = IF index = None THEN calls \o lookup
                         ELSE calls \o lookup \o remove_objects(index, obj_identifiers)
             /\ todo' = todo \ {object_path}
             /\ pc' = IF todo' = {} THEN "done" ELSE "deletes_loop"
    /\ UNCHANGED <<queue, actions, updates, deletes, models, registry, consumed, queue0>>

----------------------------------------------------------------------------

Next ==
    \/ ReadMessage
    \/ ReadEmpty
    \/ HandleUpdatesGroup
    \/ HandleUpdatesItem
    \/ HandleDeletesGroup
    \/ HandleDeletesItem

Spec == Init /\ [][Next]_vars

\* handle_noargs is sequential code: it takes its next step whenever it has one.
SpecFair == Spec /\ WF_vars(Next)

----------------------------------------------------------------------------
(* A cycle over a single message whose identifier is any short string:     *)
(* the inputs of split_obj_identifier.                                     *)

\* Longest identifier explored.
MaxIdLen == 5

CodecTokens == {"blog", "post", ".", "1"}

CodecStrings == UNION { [1..n -> CodecTokens] : n \in 0..MaxIdLen }

InitCodec ==
    /\ queue \in { << <<a, ":">> \o id >> : a \in {"update", "delete"}, id \in CodecStrings }
    /\ queue0 = queue
    /\ actions = [update |-> {}, delete |-> {}]
    /\ pc = "draining"
    /\ updates = EmptyDict
    /\ deletes = EmptyDict
    /\ todo = {}
    /\ previous_path = None
    /\ current_index = None
    /\ models \in SUBSET ModelPaths
    /\ registry \in SUBSET models
    /\ calls = <<>>
    /\ consumed = <<>>

SpecCodec == InitCodec /\ [][Next]_vars

TypeOK ==
    /\ pc \in {"draining", "raised", "handle_updates", "updates_loop",
               "handle_deletes", "deletes_loop", "done"}
    /\ actions.update \cup actions.delete \subseteq Identifiers \cup CodecStrings

----------------------------------------------------------------------------
(* Cycles on a short backlog, with the collaborators misbehaving *)

\* Longest backlog at the start of these cycles.
MaxStart == 2

StartBacklogs == UNION { [1..n -> Messages] : n \in 0..MaxStart }

InitStart ==
    /\ queue \in StartBacklogs
    /\ queue0 = queue
    /\ actions = [update |-> {}, delete |-> {}]
    /\ pc = "draining"
    /\ updates = EmptyDict
    /\ deletes = EmptyDict
    /\ todo = {}
    /\ previous_path = None
    /\ current_index = None
    /\ models \in SUBSET ModelPaths
    /\ registry \in SUBSET models
    /\ calls = <<>>
    /\ consumed = <<>>

\* The answer of a call that raised.
Failed == <<"<raised>">>

\* An iteration of handle_updates' second loop in which backend.update
\* raises: nothing around line 191 catches, the exception leaves
\* handle_updates and handle_noargs.
HandleUpdatesItemRaises ==
    /\ pc = "updates_loop"
    /\ \E object_path \in todo :
       \E outcomes \in [1..Len(updates[object_path]) -> FetchOutcomes] :
          LET pks == updates[object_path]
              model_class == get_model_class(models, object_path)
              resolve == object_path # previous_path
              index == IF resolve THEN get_index(registry, model_class) ELSE current_index
              lookup == IF resolve THEN <<Call("get_index", object_path, model_class, index)>>
                        ELSE <<>>
              instances == [i \in 1..Len(pks) |-> get_instance(model_class, pks[i], outcomes[i])]
          IN /\ index # None
             /\ previous_path' = object_path
             /\ current_index' = index
             /\ calls' = calls \o lookup \o FetchCalls(object_path, pks, instances)
                           \o <<Call("update", index, NotNone(instances), Failed)>>
             /\ pc' = "raised"
    /\ UNCHANGED <<queue, actions, updates, deletes, todo, models, registry, consumed, queue0>>

\* An iteration of handle_deletes' second loop in which the k-th
\* remove_object raises: nothing around line 231 catches.
HandleDeletesItemRaises ==
    /\ pc = "deletes_loop"
    /\ \E object_path \in todo :
       \E k \in 1..Len(deletes[object_path]) :
          LET obj_identifiers == deletes[object_path]
              model_class == get_model_class(models, object_path)
              resolve == object_path # previous_path
              index == IF resolve THEN get_index(registry, model_class) ELSE current_index
              lookup == IF resolve THEN <<Call("get_index", object_path, model_class, index)>>
                        ELSE <<>>
          IN /\ index # None
             /\ previous_path' = object_path
             /\ current_index' = index
             /\ calls' = calls \o lookup
                           \o remove_objects(index, SubSeq(obj_identifiers, 1, k - 1))
                           \o <<Call("remove_object", index, obj_identifiers[k], Failed)>>
             /\ pc' = "raised"
    /\ UNCHANGED <<queue, actions, updates, deletes, todo, models, registry, consumed, queue0>>

NextBackend ==
    \/ Next
    \/ HandleUpdatesItemRaises
    \/ HandleDeletesItemRaises

\* A cycle whose backend calls may raise.
SpecBackend == InitStart /\ [][NextBackend]_vars

\* Most messages queued between two cycles.
MaxNew == 1

NewBacklogs == UNION { [1..n -> Messages] : n \in 0..MaxNew }

\* A new Command is constructed and its handle_noargs is called, on the
\* messages queued since the last cycle: __init__ creates empty sets.
NewCommand ==
    /\ pc = "done"
    /\ queue' \in NewBacklogs
    /\ queue0' = queue'
    /\ actions' = [update |-> {}, delete |-> {}]
    /\ pc' = "draining"
    /\ updates' = EmptyDict
    /\ deletes' = EmptyDict
    /\ todo' = {}
    /\ previous_path' = None
    /\ current_index' = None
    /\ calls' = <<>>
    /\ consumed' = <<>>
    /\ UNCHANGED <<models, registry>>

\* handle_noargs is called again on the same Command: nothing in
\* handle_noargs assigns self.actions, the sets are those the last cycle left.
HandleNoargsAgain ==
    /\ pc = "done"
    /\ queue' \in NewBacklogs
    /\ queue0' = queue'
    /\ pc' = "draining"
    /\ updates' = EmptyDict
    /\ deletes' = EmptyDict
    /\ todo' = {}
    /\ previous_path' = None
    /\ current_index' = None
    /\ calls' = <<>>
    /\ consumed' = <<>>
    /\ UNCHANGED <<actions, models, registry>>

NextReinvoke ==
    \/ Next
    \/ NewCommand
    \/ HandleNoargsAgain

\* Cycle after cycle; queue0, consumed and calls are those of the running cycle.
SpecReinvoke == InitStart /\ [][NextReinvoke]_vars

\* Most messages a producer enqueues during one cycle.
MaxProduced == 1

\* What the producer enqueues.
ProducedMessages ==
    { <<"update", ":", "blog", ".", "post", ".", "2">>,
      <<"delete", ":", "blog", ".", "post", ".", "1">> }

\* A producer enqueues a message while the cycle runs.
Produce ==
    /\ pc # "raised"
    /\ Len(consumed) + Len(queue) < Len(queue0) + MaxProduced
    /\ \E message \in ProducedMessages : queue' = Append(queue, message)
    /\ UNCHANGED <<actions, pc, updates, deletes, todo, previous_path, current_index,
                   models, registry, calls, consumed, queue0>>

NextProducer ==
    \/ Next
    \/ Produce

\* A cycle with a concurrent producer.
SpecProducer == InitStart /\ [][NextProducer]_vars

----------------------------------------------------------------------------
(* Vocabulary of the properties *)

Msg(a, id) == <<a, ":">> \o id

\* The message is '<a>:<I>' with a single ':'.
Names(m, a, I) == m = Msg(a, I) /\ ~Contains(I, ":")

Pending == actions.update \cup actions.delete

\* i < j and the two messages were read in that order.
ReadInOrder(m1, m2) ==
    \E i, j \in DOMAIN consumed : i < j /\ consumed[i] = m1 /\ consumed[j] = m2

RECURSIVE LastNamed(_, _)
\* The action of the last update/delete message of hist that names I.
LastNamed(hist, I) ==
    IF hist = <<>> THEN "none"
    ELSE LET m == hist[Len(hist)] IN
         IF Names(m, "update", I) THEN "update"
         ELSE IF Names(m, "delete", I) THEN "delete"
         ELSE LastNamed(SubSeq(hist, 1, Len(hist) - 1), I)

RECURSIVE ApplyAll(_, _)
\* process_message applied to every message of msgs, first to last.
ApplyAll(msgs, acts) ==
    IF msgs = <<>> THEN acts
    ELSE ApplyAll(Tail(msgs), process_message(acts, Head(msgs)).actions)

NoActions == [update |-> {}, delete |-> {}]

Post1 == <<"blog", ".", "post", ".", "1">>
Post2 == <<"blog", ".", "post", ".", "2">>
Note1 == <<"note", ".", "1">>
BlogPost == <<"blog", ".", "post">>

\* The handlers that flush have been entered / the update pass has returned.
Flushing == pc \in {"handle_updates", "updates_loop", "handle_deletes", "deletes_loop", "done"}
UpdatePassOver == pc \in {"handle_deletes", "deletes_loop", "done"}

\* id is path + "." + a key without dots.
IsOfType(id, path) ==
    /\ Len(id) >= Len(path) + 1
    /\ SubSeq(id, 1, Len(path)) = path
    /\ id[Len(path) + 1] = "."
    /\ ~Contains(SubSeq(id, Len(path) + 2, Len(id)), ".")

PkOf(id, path) == SubSeq(id, Len(path) + 2, Len(id))

PendingPks(path) == { PkOf(id, path) : id \in { x \in actions.update : IsOfType(x, path) } }

CallsOf(op, path) == { i \in DOMAIN calls : calls[i].op = op /\ calls[i].path = path }

Fetches(path, pk) == { i \in CallsOf("get", path) : calls[i].arg = pk }

CalledPaths == ModelPaths \cup { calls[i].path : i \in DOMAIN calls }

Range(f) == { f[i] : i \in DOMAIN f }

----------------------------------------------------------------------------
(* Properties *)

\* C1. Mutual exclusion: after every prefix of the messages read, whatever
\* they are, no identifier is in both the 'update' set and the 'delete' set.
C1_MutualExclusion == actions.update \cap actions.delete = {}

\* An identifier moved from 'delete' to 'update'.
C1_Witness ==
    \E I \in Identifiers :
        /\ ReadInOrder(Msg("delete", I), Msg("update", I))
        /\ I \in actions.update

\* C2. Last write wins: an identifier is in 'update' only iff the last
\* update/delete message read that names it is an update, in 'delete' only
\* iff that message is a delete, and in neither set iff no such message
\* was read.
C2_LastWriteWins ==
    \A I \in Identifiers \cup Pending :
        LET last == LastNamed(consumed, I) IN
        /\ (I \in actions.update /\ I \notin actions.delete) <=> last = "update"
        /\ (I \in actions.delete /\ I \notin actions.update) <=> last = "delete"
        /\ (I \notin actions.update /\ I \notin actions.delete) <=> last = "none"

\* update:A then delete:A leaves A only in 'delete', while another
\* identifier is only in 'update'.
C2_Witness ==
    /\ consumed = << Msg("delete", Note1), Msg("update", Post1), Msg("delete", Post1) >>
    /\ actions = [update |-> {}, delete |-> {Note1, Post1}]

\* C3. When handle_noargs has left the draining loop, every message of the
\* initial backlog has been read exactly once, in queue order, and the
\* pending sets are those of process_message applied to them in that order;
\* [update:a.1, delete:a.2, update:a.1, delete:a.1] gives updates = {} and
\* deletes = {a.1, a.2}.
C3_DrainAppliesBacklogInOrder ==
    /\ Flushing =>
          /\ queue = <<>>
          /\ consumed = queue0
          /\ actions = ApplyAll(queue0, NoActions)
    /\ ApplyAll(<< Msg("update", Post1), Msg("delete", Post2),
                   Msg("update", Post1), Msg("delete", Post1) >>, NoActions)
          = [update |-> {}, delete |-> {Post1, Post2}]

\* The flush starts on a backlog whose order decides the result.
C3_Witness ==
    /\ pc = "handle_updates"
    /\ queue0 = << Msg("update", Post1), Msg("delete", Post2), Msg("delete", Post1) >>
    /\ actions = [update |-> {}, delete |-> {Post1, Post2}]

\* C4. Reading the update/delete message that was read just before leaves
\* the pending sets as they are; an identifier whose update was read twice
\* in a row and that is still pending for update is fetched once and is
\* once in the batch of its type.
C4_IdempotentDedup ==
    /\ [][ ( /\ pc = "draining"
             /\ queue # <<>>
             /\ consumed # <<>>
             /\ Head(queue) = consumed[Len(consumed)]
             /\ \E a \in {"update", "delete"}, I \in Identifiers : Names(Head(queue), a, I) )
           => actions' = actions ]_vars
    /\ [] ( \A I \in actions.update, path \in registry :
              ( /\ UpdatePassOver
                /\ IsOfType(I, path)
                /\ \E i \in DOMAIN consumed :
                      /\ i + 1 \in DOMAIN consumed
                      /\ consumed[i] = Msg("update", I)
                      /\ consumed[i + 1] = Msg("update", I) )
              => /\ Cardinality(Fetches(path, PkOf(I, path))) = 1
                 /\ \A u \in CallsOf("update", path) :
                       Cardinality({ k \in DOMAIN calls[u].arg :
                                       calls[u].arg[k] = <<path, PkOf(I, path)>> }) <= 1 )

\* update:A was read twice in a row and A was sent once.
C4_Witness ==
    /\ pc = "done"
    /\ consumed = << Msg("update", Post1), Msg("update", Post1) >>
    /\ actions.update = {Post1}
    /\ \E u \in CallsOf("update", BlogPost) : calls[u].arg = << <<BlogPost, <<"1">> >> >>

\* A message with one ':' whose action is neither 'update' nor 'delete'.
Unrecognized(m) ==
    \E k \in 1..Len(m) :
        /\ m[k] = ":"
        /\ ~Contains(SubSeq(m, 1, k - 1), ":")
        /\ ~Contains(SubSeq(m, k + 1, Len(m)), ":")
        /\ SubSeq(m, 1, k - 1) \notin { <<"update">>, <<"delete">> }

\* C5. Reading a message without ':' or with an action other than 'update'
\* and 'delete' changes neither set, and the draining loop goes on.
C5_DroppedMessageChangesNothing ==
    [][ ( /\ pc = "draining"
          /\ queue # <<>>
          /\ (~Contains(Head(queue), ":") \/ Unrecognized(Head(queue))) )
        => /\ actions' = actions
           /\ consumed' = Append(consumed, Head(queue))
           /\ pc' = "draining" ]_vars

\* Both kinds of message were dropped while identifiers were pending.
C5_Witness ==
    /\ pc = "draining"
    /\ Pending # {}
    /\ Len(consumed) = 3
    /\ ~Contains(consumed[2], ":")
    /\ Unrecognized(consumed[3])

\* The text before / after the first ':' of m.
BeforeFirstColon(m) ==
    SubSeq(m, 1, (CHOOSE k \in 1..Len(m) : m[k] = ":" /\ ~Contains(SubSeq(m, 1, k - 1), ":")) - 1)
AfterFirstColon(m) == SubSeq(m, Len(BeforeFirstColon(m)) + 2, Len(m))

RECURSIVE ApplyFirstColon(_, _)
\* The pending sets when every message with a ':' is taken as
\* (text before the first ':', everything after it).
ApplyFirstColon(msgs, acts) ==
    IF msgs = <<>> THEN acts
    ELSE LET m == Head(msgs)
             next == IF ~Contains(m, ":") THEN acts
                     ELSE IF BeforeFirstColon(m) = <<"update">> THEN
                          [update |-> acts.update \cup {AfterFirstColon(m)},
                           delete |-> acts.delete \ {AfterFirstColon(m)}]
                     ELSE IF BeforeFirstColon(m) = <<"delete">> THEN
                          [update |-> acts.update \ {AfterFirstColon(m)},
                           delete |-> acts.delete \cup {AfterFirstColon(m)}]
                     ELSE acts
         IN ApplyFirstColon(Tail(msgs), next)

\* C6. Every message with at least one ':' is split on the first ':' only
\* and applied or dropped accordingly; process_message never raises.
C6_SplitsOnFirstColon ==
    /\ pc # "raised"
    /\ actions = ApplyFirstColon(consumed, NoActions)

\* C7. An identifier with at least two dot-separated segments decodes to
\* (type, key) with type + "." + key the identifier and key free of dots
\* ('blog.post.42' to ('blog.post', '42')); an identifier without a dot
\* decodes to (None, None), and no call of the flush is about it.
C7_KeyIsLastSegment ==
    /\ \A id \in Pending :
          LET r == split_obj_identifier(id) IN
          IF Contains(id, ".")
          THEN /\ r[1] \o <<".">> \o r[2] = id
               /\ ~Contains(r[2], ".")
          ELSE r = <<None, None>>
    /\ split_obj_identifier(<<"blog", ".", "post", ".", "42">>) = <<BlogPost, <<"42">> >>
    /\ \A i \in DOMAIN calls : \E id \in Pending : IsOfType(id, calls[i].path)
    /\ \A i \in DOMAIN calls :
          /\ calls[i].op = "get" => calls[i].path \o <<".">> \o calls[i].arg \in actions.update
          /\ calls[i].op = "remove_object" =>
                calls[i].arg \in actions.delete /\ IsOfType(calls[i].arg, calls[i].path)
    /\ \A path \in DOMAIN updates : \A k \in DOMAIN updates[path] :
          path \o <<".">> \o updates[path][k] \in actions.update
    /\ \A path \in DOMAIN deletes : \A k \in DOMAIN deletes[path] :
          IsOfType(deletes[path][k], path)

\* 'blog.post.1' was decoded to type 'blog.post' and key '1' and updated.
C7_Witness ==
    /\ pc = "done"
    /\ actions.update = {Post1}
    /\ \E i \in CallsOf("get", BlogPost) : calls[i].arg = <<"1">>
    /\ \E u \in CallsOf("update", BlogPost) : TRUE

\* C8. Every type gets at most one backend update call; once the update
\* pass is over, a type with a registered index and a well-formed pending
\* update has got exactly one, and its entities are exactly those the
\* fetches of the pending keys of that type returned, each once.
C8_OneBatchedUpdatePerType ==
    \A path \in CalledPaths :
        /\ Cardinality(CallsOf("update", path)) <= 1
        /\ (UpdatePassOver /\ path \in registry /\ PendingPks(path) # {}) =>
              \E u \in CallsOf("update", path) :
                  /\ CallsOf("update", path) = {u}
                  /\ { calls[i].arg : i \in CallsOf("get", path) } = PendingPks(path)
                  /\ Range(calls[u].arg) =
                        { <<path, calls[i].arg>> :
                            i \in { j \in CallsOf("get", path) : calls[j].result # None } }
                  /\ Cardinality(Range(calls[u].arg)) = Len(calls[u].arg)

\* Two entities of one type went out in one call.
C8_Witness ==
    /\ UpdatePassOver
    /\ actions.update = {Post1, Post2, Note1}
    /\ \E u \in CallsOf("update", BlogPost) : Len(calls[u].arg) = 2

\* C9. No fetch, backend update or removal is ever issued for a type
\* without a registered index; when the cycle is done, every type with a
\* registered index has got its batched update and all its removals.
C9_UnregisteredGroupsSkipped ==
    /\ \A i \in DOMAIN calls :
          calls[i].op \in {"get", "update", "remove_object"} => calls[i].path \in registry
    /\ \A i \in DOMAIN calls :
          calls[i].op = "get_index" =>
             (calls[i].result = None <=> calls[i].path \notin registry)
    /\ pc = "done" =>
          \A y \in registry :
              /\ PendingPks(y) # {} => Cardinality(CallsOf("update", y)) = 1
              /\ \A id \in actions.delete :
                    IsOfType(id, y) =>
                       \E i \in CallsOf("remove_object", y) : calls[i].arg = id

\* 'note' has no index and was skipped; 'blog.post' got its update and its
\* removal.
C9_Witness ==
    /\ pc = "done"
    /\ registry = {BlogPost}
    /\ actions = [update |-> {Note1, Post1}, delete |-> {Post2}]
    /\ CallsOf("get_index", <<"note">>) # {}
    /\ CallsOf("update", BlogPost) # {}
    /\ CallsOf("remove_object", BlogPost) # {}

\* C10. A key is fetched at most once; once the update pass is over every
\* pending key of a type with a registered index has been fetched exactly
\* once, the keys whose fetch failed are not in the batch and the others
\* are, and the flush puts nothing back on the queue.
C10_UnresolvableDropped ==
    /\ \A i, j \in DOMAIN calls :
          (calls[i].op = "get" /\ calls[j].op = "get"
             /\ calls[i].path = calls[j].path /\ calls[i].arg = calls[j].arg) => i = j
    /\ \A u \in DOMAIN calls :
          calls[u].op = "update" => \A k \in DOMAIN calls[u].arg : calls[u].arg[k] # None
    /\ UpdatePassOver =>
          \A path \in registry : \A pk \in PendingPks(path) :
              /\ Cardinality(Fetches(path, pk)) = 1
              /\ \A f \in Fetches(path, pk) : \E u \in CallsOf("update", path) :
                    (calls[f].result # None) <=> (<<path, pk>> \in Range(calls[u].arg))
    /\ Flushing => queue = <<>>

\* One of two keys of a type failed to resolve; the other was sent alone.
C10_Witness ==
    /\ UpdatePassOver
    /\ \E f, g \in CallsOf("get", BlogPost) :
          /\ calls[f].result = None
          /\ calls[g].result # None
          /\ \E u \in CallsOf("update", BlogPost) : calls[u].arg = <<calls[g].result>>

\* C11. The delete pass makes no repository fetch, and no identifier pending
\* for delete is ever fetched; when the cycle is done, every well-formed
\* identifier in 'delete' whose type has a registered index has been removed
\* exactly once, by a call keyed by the identifier itself.
C11_DeletesByIdentifierComplete ==
    /\ [][ (pc = "handle_deletes" \/ pc = "deletes_loop") =>
             (\A i \in DOMAIN calls' : calls'[i].op = "get" => i \in DOMAIN calls) ]_vars
    /\ [] ( /\ \A i \in DOMAIN calls :
                  /\ calls[i].op = "get" =>
                        calls[i].path \o <<".">> \o calls[i].arg \notin actions.delete
                  /\ calls[i].op = "remove_object" => calls[i].arg \in actions.delete
            /\ \A i, j \in DOMAIN calls :
                  (calls[i].op = "remove_object" /\ calls[j].op = "remove_object"
                     /\ calls[i].arg = calls[j].arg) => i = j
            /\ pc = "done" =>
                  \A y \in registry : \A id \in actions.delete :
                      IsOfType(id, y) =>
                         Cardinality({ i \in CallsOf("remove_object", y) :
                                         calls[i].arg = id }) = 1 )

\* Two identifiers of one type were removed, none was fetched.
C11_Witness ==
    /\ pc = "done"
    /\ actions.delete = {Post1, Post2}
    /\ { calls[i].arg : i \in CallsOf("remove_object", BlogPost) } = {Post1, Post2}
    /\ \A i \in DOMAIN calls : calls[i].op # "get"

\* C12. For every finite backlog the cycle raises no error to its caller
\* and eventually is done, both passes run.
C12_CycleAlwaysCompletes ==
    /\ [](pc # "raised")
    /\ <>(pc = "done")

\* C13. A backend call that fails does not abort the cycle: the cycle goes
\* on with the remaining groups and the delete pass.
C13_BackendFailureLocal ==
    (\E i \in DOMAIN calls : calls[i].result = Failed) => pc # "raised"

\* C14. Every invocation of handle_noargs starts with empty 'update' and
\* 'delete' sets, so that what a cycle updates or removes was named by a
\* message of that cycle's backlog.
C14_FreshStatePerInvocation ==
    /\ (pc = "draining" /\ consumed = <<>>) => actions = NoActions
    /\ \A i \in DOMAIN calls :
          /\ calls[i].op = "remove_object" =>
                \E k \in DOMAIN queue0 : Names(queue0[k], "delete", calls[i].arg)
          /\ calls[i].op = "get" =>
                \E k \in DOMAIN queue0 :
                    Names(queue0[k], "update", calls[i].path \o <<".">> \o calls[i].arg)

IsPrefix(s, t) == Len(s) <= Len(t) /\ SubSeq(t, 1, Len(s)) = s

\* C15 as stated. A cycle consumes only the messages that were in the queue
\* when it started, also with a producer at work.
C15_BoundedToStartBacklog == IsPrefix(consumed, queue0)

\* C15 as amended. A cycle is bounded by queue exhaustion: it reads in queue
\* order, the backlog of its start first, leaves the draining loop for the
\* flush only on a read that finds the queue empty, and reads nothing once
\* it flushes, so that only what is enqueued after the empty read is left.
C15_BoundedByExhaustion ==
    /\ [] (IsPrefix(queue0, consumed \o queue))
    /\ [] (Flushing => IsPrefix(queue0, consumed))
    /\ [][ (pc = "draining" /\ pc' = "handle_updates") => queue = <<>> ]_vars
    /\ [][ Flushing => consumed' = consumed ]_vars

\* The cycle flushes after reading a message that was enqueued while it
\* drained.
C15_Witness ==
    /\ Flushing
    /\ Len(queue0) = 2
    /\ Len(consumed) = 3
    /\ IsPrefix(queue0, consumed)

\* C16. No call of the flush is made while the cycle drains; the cycle
\* leaves the draining loop for handle_updates only on a read that finds
\* the queue empty; once it flushes, no message is read or processed, even
\* when the queue holds one.
C16_FlushNotInterleaved ==
    /\ [] (pc = "draining" => calls = <<>>)
    /\ [][ (pc = "draining" /\ pc' # "draining" /\ pc' # "raised")
             => (queue = <<>> /\ pc' = "handle_updates" /\ calls' = <<>>) ]_vars
    /\ [][ Flushing => (consumed' = consumed /\ actions' = actions
                          /\ Len(queue') >= Len(queue) /\ pc' # "draining") ]_vars

\* A message waits in the queue while the delete pass runs.
C16_Witness ==
    /\ pc = "deletes_loop"
    /\ queue # <<>>
    /\ consumed = queue0
    /\ calls # <<>>

\* The calls the step adds to the log.
NewCalls == { i \in DOMAIN calls' : i \notin DOMAIN calls }

\* C17. Every backend update call precedes every removal call; the update
\* pass is entered once, from the draining loop, the delete pass once, from
\* the update pass, and the cycle is done from the delete pass only.
C17_UpdatesBeforeDeletes ==
    /\ [] (\A i, j \in DOMAIN calls :
              (calls[i].op = "update" /\ calls[j].op = "remove_object") => i < j)
    /\ [][ /\ (pc' = "handle_updates" /\ pc # "handle_updates") => pc = "draining"
           /\ (pc' = "handle_deletes" /\ pc # "handle_deletes")
                 => (pc = "handle_updates" \/ pc = "updates_loop")
           /\ (pc' = "done" /\ pc # "done")
                 => (pc = "handle_deletes" \/ pc = "deletes_loop")
           /\ UpdatePassOver => UpdatePassOver'
           /\ pc = "done" => pc' = "done"
           /\ \A i \in NewCalls :
                 /\ calls'[i].op \in {"get", "update"} => pc = "updates_loop"
                 /\ calls'[i].op = "remove_object" => pc = "deletes_loop" ]_vars

\* A cycle is done that updated one type and removed from another.
C17_Witness ==
    /\ pc = "done"
    /\ CallsOf("update", <<"note">>) # {}
    /\ CallsOf("remove_object", BlogPost) # {}

\* C18. handle_updates and handle_deletes leave both sets as they are, also
\* when a backend call raises; the sets change only when process_message is
\* applied to the message read from the queue.
C18_FlushOnlyReadsSets ==
    /\ [][ Flushing => actions' = actions ]_vars
    /\ [][ actions' # actions =>
             ( /\ pc = "draining"
               /\ queue # <<>>
               /\ consumed' = Append(consumed, Head(queue))
               /\ actions' = process_message(actions, Head(queue)).actions ) ]_vars
    /\ [] ((Flushing \/ calls # <<>>) => actions = ApplyAll(queue0, NoActions))

\* Both passes ran on non-empty sets and a removal raised; the sets are
\* those the draining loop built.
C18_Witness ==
    /\ pc = "raised"
    /\ \E i \in DOMAIN calls : calls[i].op = "remove_object" /\ calls[i].result = Failed
    /\ \E i \in DOMAIN calls : calls[i].op = "update"
    /\ actions.update # {}
    /\ actions.delete # {}

\* The identifier of an instance sent to the backend.
IdentifierOf(instance) == instance[1] \o <<".">> \o instance[2]

\* C19. No identifier is both sent in a batched update and removed, none is
\* removed twice, no entity is fetched twice or sent twice; an identifier
\* is updated only if the last update/delete message naming it is an update
\* and removed only if that message is a delete.
C19_OneOperationPerIdentifier ==
    /\ \A u \in DOMAIN calls : calls[u].op = "update" =>
          \A k \in DOMAIN calls[u].arg :
              /\ LastNamed(consumed, IdentifierOf(calls[u].arg[k])) = "update"
              /\ \A r \in DOMAIN calls :
                    calls[r].op = "remove_object" =>
                       calls[r].arg # IdentifierOf(calls[u].arg[k])
              /\ \A v \in DOMAIN calls : calls[v].op = "update" =>
                    \A l \in DOMAIN calls[v].arg :
                        calls[v].arg[l] = calls[u].arg[k] => (v = u /\ l = k)
    /\ \A r \in DOMAIN calls : calls[r].op = "remove_object" =>
          /\ LastNamed(consumed, calls[r].arg) = "delete"
          /\ \A q \in DOMAIN calls :
                (calls[q].op = "remove_object" /\ calls[q].arg = calls[r].arg) => q = r
    /\ \A f \in DOMAIN calls : calls[f].op = "get" =>
          /\ LastNamed(consumed, calls[f].path \o <<".">> \o calls[f].arg) = "update"
          /\ \A g \in DOMAIN calls :
                (calls[g].op = "get" /\ calls[g].path = calls[f].path
                   /\ calls[g].arg = calls[f].arg) => g = f

\* Three messages named one identifier; it was updated once and not removed.
C19_Witness ==
    /\ pc = "done"
    /\ consumed = << Msg("update", Post1), Msg("delete", Post1), Msg("update", Post1) >>
    /\ \E u \in CallsOf("update", BlogPost) : calls[u].arg = << <<BlogPost, <<"1">> >> >>
    /\ \A i \in DOMAIN calls : calls[i].op # "remove_object"

\* C20. Once the update pass is over, a type with a registered index whose
\* pending keys all failed to resolve has got exactly one backend update
\* call, with an empty list.
C20_EmptyBatchStillSent ==
    \A path \in registry :
        ( /\ UpdatePassOver
          /\ PendingPks(path) # {}
          /\ \A f \in CallsOf("get", path) : calls[f].result = None )
        => /\ Cardinality(CallsOf("update", path)) = 1
           /\ \A u \in CallsOf("update", path) : calls[u].arg = <<>>

\* Both keys of a type failed to resolve and an empty batch went out.
C20_Witness ==
    /\ UpdatePassOver
    /\ PendingPks(BlogPost) = { <<"1">>, <<"2">> }
    /\ Cardinality(CallsOf("get", BlogPost)) = 2
    /\ \A f \in CallsOf("get", BlogPost) : calls[f].result = None
    /\ \E u \in CallsOf("update", BlogPost) : calls[u].arg = <<>>

====
